---- MODULE Spec2Model ----
(***************************************************************************)
(* Model of the langchain-ex entry points:                                 *)
(*   - chatbox_gradio/backend.py : the Flask HTTP service (threaded)       *)
(*   - chatbox_gradio/ai.py      : AIService (chain cache, provider calls) *)
(*                                 and its interactive main()              *)
(*   - chatbox_gradio/frontend.py: chat_fn / send_chat_request of the UI   *)
(*   - ollama/main.py            : the local-model CLI loop                *)
(*   - taiga/main.py             : the agent's interactive loop            *)
(*                                                                         *)
(* Text is a sequence of chunks.  Text that the code inspects (strip,      *)
(* lower, comparison, cache keys) is one character per chunk; fixed        *)
(* message literals are one chunk each.  Concatenation is \o.              *)
(***************************************************************************)
EXTENDS Naturals, Sequences, FiniteSets, TLC

\* ------------------------------------------------------------------ bounds

\* Requests accepted by the HTTP service in one run of the process.
MaxRequests == 2

\* Lines read by the local-model CLI loop in one session.
MaxLines == 3

\* Iterations of the agent's interactive loop in one session.
MaxTurns == 3

\* chat_fn calls of the browser UI in one session.
MaxMessages == 2

\* ------------------------------------------------------- python str helpers

Whitespace == {" ", "\t", "\n"}

UpperLetters == <<"A","B","C","D","E","F","G","H","I","J","K","L","M",
                  "N","O","P","Q","R","S","T","U","V","W","X","Y","Z">>
LowerLetters == <<"a","b","c","d","e","f","g","h","i","j","k","l","m",
                  "n","o","p","q","r","s","t","u","v","w","x","y","z">>

\* The lower-case letter of each upper-case letter.
LowerOf ==
    [c \in {UpperLetters[i] : i \in 1..Len(UpperLetters)} |->
        LowerLetters[CHOOSE i \in 1..Len(UpperLetters) : UpperLetters[i] = c]]

LowerChar(c) == IF c \in DOMAIN LowerOf THEN LowerOf[c] ELSE c

\* str.lower()
Lower(s) == [i \in 1..Len(s) |-> LowerChar(s[i])]

RECURSIVE LStrip(_)
LStrip(s) == IF s # <<>> /\ Head(s) \in Whitespace THEN LStrip(Tail(s)) ELSE s

RECURSIVE RStrip(_)
RStrip(s) ==
    IF s # <<>> /\ s[Len(s)] \in Whitespace
    THEN RStrip(SubSeq(s, 1, Len(s) - 1))
    ELSE s

\* str.strip()
Strip(s) == RStrip(LStrip(s))

\* Whether chunk c occurs in text s.
Mentions(s, c) == \E i \in 1..Len(s) : s[i] = c

\* ------------------------------------------------------------ python values

\* A value is tagged with its type: a str, None (JSON null) or a number.
PyStr(s) == [t |-> "str", v |-> s]
None == [t |-> "none", v |-> <<>>]
PyNum == [t |-> "int", v |-> <<"7">>]
IsStr(x) == x.t = "str"

\* bool(x)
Truthy(x) == IF IsStr(x) THEN x.v # <<>> ELSE x.t = "int"

\* x or y
Or(x, y) == IF Truthy(x) THEN x ELSE y

\* ---------------------------------------------------------------- literals

S_auto == <<"a","u","t","o">>
S_gpt == <<"g","p","t">>
S_claude == <<"c","l","a","u","d","e">>
S_default == <<"d","e","f","a","u","l","t">>

\* class ModelProvider(Enum): member name -> value
ModelProvider == [AUTO |-> S_auto, GPT |-> S_gpt, CLAUDE |-> S_claude]

ProviderMembers == DOMAIN ModelProvider

\* ModelProvider(value): the member with that value; "ValueError" when none.
ModelProviderOf(value) ==
    IF \E m \in ProviderMembers : ModelProvider[m] = value
    THEN CHOOSE m \in ProviderMembers : ModelProvider[m] = value
    ELSE "ValueError"

S_qwen == <<"qwen3:8b">>
S_gpt35 == <<"gpt-3.5-turbo">>
S_haiku == <<"claude-3-haiku-20240307">>

\* ---------------------------------------------------------------- variables

VARIABLES
    entry,      \* which script was started: "backend", "ollama_cli", "taiga", "ai_cli",
                \* "frontend"
    environ,    \* os.environ: the two API key variables
    chains,     \* AIService.chains: cache key -> chain
    built,      \* per cache key, how many chains were constructed and stored
    served,     \* requests accepted so far
    pc,         \* per worker thread: position inside chat()
    request,    \* per worker thread: the request being handled
    frame,      \* per worker thread: locals of chat() / invoke_model / get_chain
    outcome,    \* per worker thread: how invoke_model ended
    response,   \* per worker thread: the HTTP response produced
    calls,      \* per worker thread: chain.invoke calls made for this request
    cli_pc,     \* ollama/main.py: "start", "input" (waiting at input()), "exited"
    cli_line,   \* ollama/main.py: user_input of the last iteration
    cli_calls,  \* ollama/main.py: chain.invoke calls made for that line
    cli_shown,  \* ollama/main.py: what the last iteration printed
    cli_lines,  \* ollama/main.py: lines read so far
    agent_pc,       \* taiga/main.py: "input" (waiting at input()), "exited"
    agent_event,    \* taiga/main.py: what the last loop iteration was
    agent_input,    \* taiga/main.py: user_input of the last iteration
    chat_history,   \* taiga/main.py: chat_history
    agent_passed,   \* taiga/main.py: the chat_history the executor last received
    agent_turns,    \* taiga/main.py: loop iterations so far
    ai_pc,              \* ai.py main(): "input" (waiting at input("You: ")), "exited"
    current_provider,   \* ai.py main(): current_provider (a ModelProvider member)
    ai_line,            \* ai.py main(): user_input of the last iteration
    ai_name,            \* ai.py main(): what was typed at "Select provider: "
    ai_event,           \* ai.py main(): what the last loop iteration was
    ai_calls,           \* ai.py main(): chain.invoke calls made in that iteration
    ai_printed,         \* ai.py main(): the lines that iteration printed
    ai_lines,           \* ai.py main(): loop iterations so far
    ui_history,     \* frontend.py: the chatbot's history, a list of [message, reply]
    ui_message,     \* frontend.py: message of the last chat_fn call
    ui_model,       \* frontend.py: dropdown entry of the last chat_fn call
    ui_posts,       \* frontend.py: the requests.post calls that chat_fn call made
    ui_outcome,     \* frontend.py: what requests.post ended in, in that call
    ui_result,      \* frontend.py: how that chat_fn call ended
    ui_calls        \* frontend.py: chat_fn calls so far

backendVars == <<environ, chains, built, served, pc, request, frame, outcome,
                 response, calls>>

cliVars == <<cli_pc, cli_line, cli_calls, cli_shown, cli_lines>>

agentVars == <<agent_pc, agent_event, agent_input, chat_history, agent_passed,
               agent_turns>>

aiVars == <<ai_pc, current_provider, ai_line, ai_name, ai_event, ai_calls,
            ai_printed, ai_lines>>

uiVars == <<ui_history, ui_message, ui_model, ui_posts, ui_outcome, ui_result,
            ui_calls>>

\* The state of the HTTP workers (everything of the backend but the
\* environment and the AIService cache).
workerVars == <<served, pc, request, frame, outcome, response, calls>>

\* Worker threads of the development server (app.run(threaded=True)).
Threads == {"t1", "t2"}

\* ------------------------------------------------------------- ai.py config

\* An unset variable, a variable set to the empty string, a real key.
EnvValues == {None, PyStr(<<>>), PyStr(<<"sk-key">>)}

\* AIService._setup_config
Config ==
    [ollama    |-> [model |-> S_qwen],
     openai    |-> [api_key |-> environ.OPENAI_API_KEY, model |-> S_gpt35],
     anthropic |-> [api_key |-> environ.ANTHROPIC_API_KEY, model |-> S_haiku]]

NoChain == [client |-> "none", model |-> <<>>]
Built(c) == [ok |-> TRUE, chain |-> c, error |-> <<>>]
Raise(e) == [ok |-> FALSE, chain |-> NoChain, error |-> e]

OpenAIKeyError ==
    <<"OpenAI API key not configured. Please set OPENAI_API_KEY environment variable.">>
AnthropicKeyError ==
    <<"Anthropic API key not configured. Please set ANTHROPIC_API_KEY environment variable.">>

\* AIService.create_ollama_chain
create_ollama_chain(model) ==
    Built([client |-> "OllamaLLM", model |-> Or(model, PyStr(Config.ollama.model)).v])

\* Variant of create_openai_chain without the api_key check of line 103.
create_openai_chain_unchecked(model) ==
    Built([client |-> "ChatOpenAI", model |-> Or(model, PyStr(Config.openai.model)).v])

\* AIService.create_openai_chain
create_openai_chain(model) ==
    IF ~Truthy(Config.openai.api_key)
    THEN Raise(OpenAIKeyError)
    ELSE Built([client |-> "ChatOpenAI", model |-> Or(model, PyStr(Config.openai.model)).v])

\* AIService.create_anthropic_chain
create_anthropic_chain(model) ==
    IF ~Truthy(Config.anthropic.api_key)
    THEN Raise(AnthropicKeyError)
    ELSE Built([client |-> "ChatAnthropic",
                model |-> Or(model, PyStr(Config.anthropic.model)).v])

\* get_chain, line 151: f"{provider.value}_{model or 'default'}"
cache_key(provider, model) ==
    ModelProvider[provider] \o <<"_">> \o Or(model, PyStr(S_default)).v

\* get_chain, lines 154-161: the constructor chosen for a provider
create_chain(provider, model) ==
    CASE provider = "AUTO"   -> create_ollama_chain(model)
      [] provider = "GPT"    -> create_openai_chain(model)
      [] provider = "CLAUDE" -> create_anthropic_chain(model)
      [] OTHER               -> Raise(<<"Unsupported provider">>)

\* create_prompt_template + PromptTemplate fill
fill_template(question) == <<"Human: ">> \o question \o <<"\n\nAssistant:">>

\* What the provider behind a chain answers to a filled prompt, when it answers.
Completion(chain, filled) == <<chain.client, "(">> \o chain.model \o <<") says: ">> \o filled

\* chain.invoke when the provider answers: OllamaLLM gives a str, the chat
\* clients give a message object with .content
chain_reply(chain, question) ==
    IF chain.client = "OllamaLLM"
    THEN [kind |-> "str", text |-> Completion(chain, fill_template(question))]
    ELSE [kind |-> "message", text |-> Completion(chain, fill_template(question))]

\* invoke_model, lines 182-187
response_text(reply) ==
    IF reply.kind = "message" THEN reply.text
    ELSE IF reply.kind = "str" THEN reply.text
    ELSE <<"str(">> \o reply.text \o <<")">>

TroubleshootOllama ==
    <<"\n\nTroubleshooting:\n- Make sure Ollama is running (ollama serve)\n- Check if model is available (ollama list)">>
TroubleshootOpenAI ==
    <<"\n\nTroubleshooting:\n- Check OpenAI API key\n- Verify internet connection\n- Check API quotas">>
TroubleshootAnthropic ==
    <<"\n\nTroubleshooting:\n- Check Anthropic API key\n- Verify internet connection\n- Check API quotas">>

\* Variant of troubleshooting in which the CLAUDE branch carries the GPT text.
troubleshooting_copied(provider) ==
    CASE provider = "AUTO"   -> TroubleshootOllama
      [] provider = "GPT"    -> TroubleshootOpenAI
      [] provider = "CLAUDE" -> TroubleshootOpenAI
      [] OTHER               -> <<>>

\* invoke_model, lines 192-198
troubleshooting(provider) ==
    CASE provider = "AUTO"   -> TroubleshootOllama
      [] provider = "GPT"    -> TroubleshootOpenAI
      [] provider = "CLAUDE" -> TroubleshootAnthropic
      [] OTHER               -> <<>>

\* invoke_model, lines 189-200: the message of the Exception that is raised
error_msg(provider, e) ==
    <<"Error with ">> \o ModelProvider[provider] \o <<": ">> \o e
        \o troubleshooting(provider)

\* What str(e) of a failing provider call can be.
ProviderFailures == {<<"Connection refused">>}


\* -------------------------------------------------------- backend.py: chat()

\* jsonify(...) with its status code
Json(code, body) == [code |-> code, body |-> body]
ErrorBody(text) == [error |-> text, status |-> "error"]

valid_providers == {S_auto, S_gpt, S_claude}

InvalidProviderText ==
    <<"Invalid model provider. Must be one of: ['auto', 'gpt', 'claude']">>

\* chat(), lines 137-149: the two except clauses
handle_exception(exc) ==
    IF exc.type = "ValueError"
    THEN Json(400, ErrorBody(exc.text))
    ELSE Json(500, ErrorBody(<<"Failed to process chat request: ">> \o exc.text))

NoFrame ==
    [prompt |-> None, model_provider |-> None, specific_model |-> None,
     provider |-> "none", cache_key |-> <<>>, chain |-> NoChain]

Answered(resp) == [done |-> TRUE, response |-> resp, frame |-> NoFrame]

\* Variant of is_blank that forgets .strip(): `not data['prompt']`.
is_blank_unstripped(s) == s = <<>>

\* chat(), line 97: not data['prompt'].strip()
is_blank(s) == Strip(s) = <<>>

\* chat(), lines 86-121, and get_ai_response, line 219: everything before
\* invoke_model is entered.  Either the response is already decided, or the
\* locals that go on to the provider step.
validate(req) ==
    IF ~req.is_json
    THEN Answered(Json(400, ErrorBody(<<"Request must be JSON">>)))
    ELSE LET data == req.json IN
    IF "prompt" \notin DOMAIN data
    THEN Answered(Json(400, ErrorBody(<<"Prompt is required and cannot be empty">>)))
    ELSE IF ~IsStr(data.prompt)
    THEN Answered(handle_exception(
            [type |-> "AttributeError", text |-> <<"object has no attribute 'strip'">>]))
    ELSE IF is_blank(data.prompt.v)
    THEN Answered(Json(400, ErrorBody(<<"Prompt is required and cannot be empty">>)))
    ELSE IF "model" \notin DOMAIN data
    THEN Answered(Json(400, ErrorBody(<<"Model is required">>)))
    ELSE IF ~IsStr(data.model)
    THEN Answered(handle_exception(
            [type |-> "AttributeError", text |-> <<"object has no attribute 'lower'">>]))
    ELSE LET prompt == Strip(data.prompt.v)
             model_provider == Lower(data.model.v)
             specific_model == IF "specific_model" \in DOMAIN data
                               THEN data.specific_model ELSE None
         IN
    IF model_provider \notin valid_providers
    THEN Answered(Json(400, ErrorBody(InvalidProviderText)))
    ELSE LET provider == ModelProviderOf(Lower(model_provider)) IN
    IF provider = "ValueError"
    THEN Answered(handle_exception(
            [type |-> "ValueError", text |-> <<"is not a valid ModelProvider">>]))
    ELSE [done |-> FALSE, response |-> Json(0, ErrorBody(<<>>)),
          frame |-> [prompt |-> PyStr(prompt),
                     model_provider |-> PyStr(model_provider),
                     specific_model |-> specific_model,
                     provider |-> provider,
                     cache_key |-> <<>>,
                     chain |-> NoChain]]

\* Variant of success_response that reports the resolved model name instead of
\* the request's specific_model.
success_response_resolved(f, text) ==
    Json(200, [response |-> text,
               model_used |-> f.model_provider.v,
               specific_model |-> Or(f.specific_model, PyStr(S_default)),
               status |-> "success"])

\* chat(), lines 130-135
success_response(f, text) ==
    Json(200, [response |-> text,
               model_used |-> f.model_provider.v,
               specific_model |-> f.specific_model,
               status |-> "success"])

\* ------------------------------------------------------------ request bodies

Absent == [t |-> "absent", v |-> <<>>]

PromptChoices ==
    {Absent, None, PyStr(<<>>), PyStr(<<" ", "\t">>), PyStr(<<" ", "h", "i", " ">>)}

ModelChoices ==
    {Absent, PyNum, PyStr(S_auto), PyStr(S_gpt), PyStr(S_claude),
     PyStr(<<"G","P","T">>), PyStr(<<"l","l","a","m","a">>)}

SpecificChoices == {Absent, PyStr(<<"m","1">>), PyStr(S_default)}

Given(fields) == {k \in DOMAIN fields : fields[k] # Absent}

\* The JSON object that holds exactly the fields that are given.
MkBody(p, m, s) ==
    LET fields == [prompt |-> p, model |-> m, specific_model |-> s]
    IN  [k \in Given(fields) |-> fields[k]]

\* The prompt that passes the check of line 97.
UsablePrompt == PyStr(<<" ", "h", "i", " ">>)

\* The field combinations of the JSON bodies: with the usable prompt every
\* model and specific_model; with each other prompt every model without
\* specific_model, and every specific_model with model auto.
BodyFields ==
    {f \in PromptChoices \X ModelChoices \X SpecificChoices :
        \/ f[1] = UsablePrompt
        \/ f[3] = Absent
        \/ f[2] = PyStr(S_auto)}

\* The POST /api/chat requests: one that is not JSON, and the JSON objects.
Requests ==
    {[route |-> "/api/chat", is_json |-> FALSE, json |-> MkBody(Absent, Absent, Absent)]}
    \cup {[route |-> "/api/chat", is_json |-> TRUE, json |-> MkBody(f[1], f[2], f[3])] :
            f \in BodyFields}

\* validate, tabulated over the requests of the model.
Validated == [req \in Requests |-> validate(req)]

NoRequest == [route |-> "none", is_json |-> FALSE, json |-> <<>>]
NoResponse == Json(0, ErrorBody(<<>>))
NoOutcome == [kind |-> "none", value |-> <<>>]


\* -------------------------------------------------- backend.py: the handlers

\* One step of the exception path of invoke_model into chat(): the Exception
\* raised at ai.py line 200 reaches chat()'s except clauses.
provider_step_failed(t, e) ==
    LET msg == error_msg(frame[t].provider, e) IN
    /\ outcome' = [outcome EXCEPT ![t] = [kind |-> "raised", value |-> msg]]
    /\ response' = [response EXCEPT ![t] =
                        handle_exception([type |-> "Exception", text |-> msg])]
    /\ pc' = [pc EXCEPT ![t] = "done"]

\* After validation: get_chain, lines 151-153, the cache key and the
\* membership test, which is the worker's first access to the shared cache.
lookup(f) ==
    LET key == cache_key(f.provider, f.specific_model) IN
    [frame |-> [f EXCEPT !.cache_key = key],
     pc |-> IF key \in DOMAIN chains THEN "invoke" ELSE "create"]

\* A request arrives at POST /api/chat and a worker runs chat() up to the
\* membership test of get_chain (backend.py 86-128; ai.py 219, 178, 151-153).
\* Everything before that test is local to the worker.
Chat(t) ==
    /\ entry = "backend"
    /\ pc[t] = "idle"
    /\ served < MaxRequests
    /\ \E req \in Requests :
        LET v == Validated[req] IN
        /\ request' = [request EXCEPT ![t] = req]
        /\ frame' = [frame EXCEPT ![t] = IF v.done THEN v.frame ELSE lookup(v.frame).frame]
        /\ response' = [response EXCEPT ![t] = IF v.done THEN v.response ELSE NoResponse]
        /\ pc' = [pc EXCEPT ![t] = IF v.done THEN "done" ELSE lookup(v.frame).pc]
    /\ served' = served + 1
    /\ UNCHANGED <<entry, uiVars, aiVars, cliVars, agentVars, environ, chains, built, outcome, calls>>

\* Variant of Create that stores an empty entry under the key when the
\* constructor raises.
CreateStoresFailure(t) ==
    /\ pc[t] = "create"
    /\ LET key == frame[t].cache_key
           made == create_chain(frame[t].provider, frame[t].specific_model)
       IN  /\ chains' = [k \in DOMAIN chains \cup {key} |->
                            IF k = key THEN made.chain ELSE chains[k]]
           /\ built' = [k \in DOMAIN built \cup {key} |->
                            IF k = key
                            THEN (IF k \in DOMAIN built THEN built[k] ELSE 0) + 1
                            ELSE built[k]]
           /\ IF made.ok
              THEN /\ pc' = [pc EXCEPT ![t] = "invoke"]
                   /\ UNCHANGED <<outcome, response>>
              ELSE provider_step_failed(t, made.error)
    /\ UNCHANGED <<entry, uiVars, aiVars, cliVars, agentVars, environ, served, request, frame, calls>>

\* get_chain, lines 154-161: construct the chain and store it under the key;
\* a constructor that raises stores nothing and invoke_model's handler runs.
Create(t) ==
    /\ pc[t] = "create"
    /\ LET key == frame[t].cache_key
           made == create_chain(frame[t].provider, frame[t].specific_model)
       IN  IF made.ok
           THEN /\ chains' = [k \in DOMAIN chains \cup {key} |->
                                IF k = key THEN made.chain ELSE chains[k]]
                /\ built' = [k \in DOMAIN built \cup {key} |->
                                IF k = key
                                THEN (IF k \in DOMAIN built THEN built[k] ELSE 0) + 1
                                ELSE built[k]]
                /\ pc' = [pc EXCEPT ![t] = "invoke"]
                /\ UNCHANGED <<outcome, response>>
           ELSE /\ provider_step_failed(t, made.error)
                /\ UNCHANGED <<chains, built>>
    /\ UNCHANGED <<entry, uiVars, aiVars, cliVars, agentVars, environ, served, request, frame, calls>>

\* get_chain, line 163 (return self.chains[cache_key]); invoke_model, lines
\* 179-187; chat(), lines 130-135: the provider answers.
InvokeOk(t) ==
    /\ pc[t] = "invoke"
    /\ calls' = [calls EXCEPT ![t] = calls[t] + 1]
    /\ LET chain == chains[frame[t].cache_key]
           text == response_text(chain_reply(chain, frame[t].prompt.v))
       IN
        /\ frame' = [frame EXCEPT ![t].chain = chain]
        /\ outcome' = [outcome EXCEPT ![t] = [kind |-> "returned", value |-> text]]
        /\ response' = [response EXCEPT ![t] = success_response(frame[t], text)]
    /\ pc' = [pc EXCEPT ![t] = "done"]
    /\ UNCHANGED <<entry, uiVars, aiVars, cliVars, agentVars, environ, chains, built, served, request>>

\* Variant of InvokeFail that calls the provider again after a failure.
InvokeFailRetry(t) ==
    /\ pc[t] = "invoke"
    /\ calls[t] < 2
    /\ calls' = [calls EXCEPT ![t] = calls[t] + 1]
    /\ frame' = [frame EXCEPT ![t].chain = chains[frame[t].cache_key]]
    /\ IF calls[t] = 0
       THEN UNCHANGED <<outcome, response, pc>>
       ELSE \E e \in ProviderFailures : provider_step_failed(t, e)
    /\ UNCHANGED <<entry, uiVars, aiVars, cliVars, agentVars, environ, chains, built, served, request>>

\* get_chain, line 163; invoke_model, lines 179 and 189-200; chat(), lines
\* 144-149: the provider call raises.
InvokeFail(t) ==
    /\ pc[t] = "invoke"
    /\ calls' = [calls EXCEPT ![t] = calls[t] + 1]
    /\ frame' = [frame EXCEPT ![t].chain = chains[frame[t].cache_key]]
    /\ \E e \in ProviderFailures : provider_step_failed(t, e)
    /\ UNCHANGED <<entry, uiVars, aiVars, cliVars, agentVars, environ, chains, built, served, request>>

\* The response is sent and the worker is free again.
Respond(t) ==
    /\ pc[t] = "done"
    /\ pc' = [pc EXCEPT ![t] = "idle"]
    /\ request' = [request EXCEPT ![t] = NoRequest]
    /\ frame' = [frame EXCEPT ![t] = NoFrame]
    /\ outcome' = [outcome EXCEPT ![t] = NoOutcome]
    /\ response' = [response EXCEPT ![t] = NoResponse]
    /\ calls' = [calls EXCEPT ![t] = 0]
    /\ UNCHANGED <<entry, uiVars, aiVars, cliVars, agentVars, environ, chains, built, served>>

\* get_available_models, lines 45-71: the 'models' list
get_available_models ==
    <<[id |-> S_auto, provider |-> "ollama", requires_api_key |-> FALSE],
      [id |-> S_gpt, provider |-> "openai", requires_api_key |-> TRUE,
       available |-> Truthy(environ.OPENAI_API_KEY)],
      [id |-> S_claude, provider |-> "anthropic", requires_api_key |-> TRUE,
       available |-> Truthy(environ.ANTHROPIC_API_KEY)]>>

ModelsRequest == [route |-> "/api/models", is_json |-> FALSE, json |-> <<>>]

\* A worker serves GET /api/models.
ListModels(t) ==
    /\ entry = "backend"
    /\ pc[t] = "idle"
    /\ served < MaxRequests
    /\ served' = served + 1
    /\ request' = [request EXCEPT ![t] = ModelsRequest]
    /\ response' = [response EXCEPT ![t] = Json(200, [models |-> get_available_models])]
    /\ pc' = [pc EXCEPT ![t] = "done"]
    /\ UNCHANGED <<entry, uiVars, aiVars, cliVars, agentVars, environ, chains, built, frame, outcome, calls>>

\* Variant of health_check that reports on the configured API keys.
health_check_keyed ==
    IF Truthy(environ.OPENAI_API_KEY) \/ Truthy(environ.ANTHROPIC_API_KEY)
    THEN Json(200, [status |-> "healthy", service |-> <<"AI Chat Backend">>,
                    version |-> <<"1.0.0">>])
    ELSE Json(503, [status |-> "degraded", service |-> <<"AI Chat Backend">>,
                    version |-> <<"1.0.0">>])

\* health_check, lines 32-39: jsonify of a fixed payload, status 200
health_check ==
    Json(200, [status |-> "healthy", service |-> <<"AI Chat Backend">>,
               version |-> <<"1.0.0">>])

HealthRequest == [route |-> "/health", is_json |-> FALSE, json |-> <<>>]

\* A worker serves GET /health.
Health(t) ==
    /\ entry = "backend"
    /\ pc[t] = "idle"
    /\ served < MaxRequests
    /\ served' = served + 1
    /\ request' = [request EXCEPT ![t] = HealthRequest]
    /\ response' = [response EXCEPT ![t] = health_check]
    /\ pc' = [pc EXCEPT ![t] = "done"]
    /\ UNCHANGED <<entry, uiVars, aiVars, cliVars, agentVars, environ, chains, built, frame, outcome, calls>>

BackendInit ==
    /\ environ \in [OPENAI_API_KEY : EnvValues, ANTHROPIC_API_KEY : EnvValues]
    /\ chains = <<>>
    /\ built = <<>>
    /\ served = 0
    /\ pc = [t \in Threads |-> "idle"]
    /\ request = [t \in Threads |-> NoRequest]
    /\ frame = [t \in Threads |-> NoFrame]
    /\ outcome = [t \in Threads |-> NoOutcome]
    /\ response = [t \in Threads |-> NoResponse]
    /\ calls = [t \in Threads |-> 0]

\* ------------------------------------------------- ollama/main.py: main()

quit_words == {<<"q","u","i","t">>, <<"e","x","i","t">>, <<"q">>}

\* What the user can type at a prompt of a CLI loop.
TypedLines ==
    {<<>>, <<" ">>, <<"Q">>, <<" ","E","x","i","t">>, <<"h","i">>, <<" ","q","u","i","z"," ">>}

\* main(), line 29: the chain is built once, before the loop.
OllamaStart ==
    /\ entry = "ollama_cli"
    /\ cli_pc = "start"
    /\ cli_pc' = "input"
    /\ UNCHANGED <<entry, uiVars, aiVars, backendVars, agentVars, cli_line, cli_calls, cli_shown, cli_lines>>

\* main(), lines 33-38: a quit command ends the loop.
OllamaQuit ==
    /\ cli_pc = "input"
    /\ cli_lines < MaxLines
    /\ \E typed \in TypedLines :
        /\ Lower(Strip(typed)) \in quit_words
        /\ cli_line' = Strip(typed)
    /\ cli_calls' = 0
    /\ cli_shown' = "goodbye"
    /\ cli_lines' = cli_lines + 1
    /\ cli_pc' = "exited"
    /\ UNCHANGED <<entry, uiVars, aiVars, backendVars, agentVars>>

\* main(), lines 33-42: a blank line is refused and the loop asks again.
OllamaBlank ==
    /\ cli_pc = "input"
    /\ cli_lines < MaxLines
    /\ \E typed \in TypedLines :
        /\ Lower(Strip(typed)) \notin quit_words
        /\ Strip(typed) = <<>>
        /\ cli_line' = Strip(typed)
    /\ cli_calls' = 0
    /\ cli_shown' = "please enter"
    /\ cli_lines' = cli_lines + 1
    /\ UNCHANGED <<entry, uiVars, aiVars, backendVars, agentVars, cli_pc>>

\* main(), lines 33-50: the line is sent to the chain, which answers.
OllamaAnswer ==
    /\ cli_pc = "input"
    /\ cli_lines < MaxLines
    /\ \E typed \in TypedLines :
        /\ Lower(Strip(typed)) \notin quit_words
        /\ Strip(typed) # <<>>
        /\ cli_line' = Strip(typed)
    /\ cli_calls' = 1
    /\ cli_shown' = "response"
    /\ cli_lines' = cli_lines + 1
    /\ UNCHANGED <<entry, uiVars, aiVars, backendVars, agentVars, cli_pc>>

\* main(), lines 33-47 and 52-54: the chain raises; the error is printed.
OllamaError ==
    /\ cli_pc = "input"
    /\ cli_lines < MaxLines
    /\ \E typed \in TypedLines :
        /\ Lower(Strip(typed)) \notin quit_words
        /\ Strip(typed) # <<>>
        /\ cli_line' = Strip(typed)
    /\ cli_calls' = 1
    /\ cli_shown' = "error"
    /\ cli_lines' = cli_lines + 1
    /\ UNCHANGED <<entry, uiVars, aiVars, backendVars, agentVars, cli_pc>>

\* main(), lines 56-60: Ctrl-C at input() ends the program with the goodbye
\* line; end of input (EOFError) ends it through the outer except Exception.
OllamaInterrupt ==
    /\ cli_pc = "input"
    /\ cli_pc' = "exited"
    /\ cli_shown' \in {"goodbye", "error initializing"}
    /\ UNCHANGED <<entry, uiVars, aiVars, backendVars, agentVars, cli_line, cli_calls, cli_lines>>

CliInit ==
    /\ cli_pc = "start"
    /\ cli_line = <<>>
    /\ cli_calls = 0
    /\ cli_shown = "banner"
    /\ cli_lines = 0

\* ---------------------------------------------------- ai.py: main() (CLI)

S_switch == <<"s","w","i","t","c","h">>

\* What the user can type at the "You: " prompt of ai.py's loop.
AiTypedLines ==
    TypedLines \cup {S_switch, <<" ","S","w","i","t","c","h">>}

\* What the user can type at the "Select provider: " prompt.
TypedNames ==
    {<<>>, S_auto, S_gpt, <<"G","P","T">>, <<" ","c","l","a","u","d","e"," ">>,
     <<"l","l","a","m","a">>}

\* The lines print() writes, one text each.
CurrentModelLine(p) == <<"Current model: ">> \o ModelProvider[p]
GoodbyeLine == <<"Goodbye!">>
AvailableLine == <<"Available providers: auto, gpt, claude">>
SwitchedLine(p) == <<"Switched to ">> \o ModelProvider[p]
InvalidProviderLine == <<"Invalid provider. Using current provider.">>
PleaseEnterLine == <<"Please enter a question.">>
ThinkingLine == <<"Thinking...">>
AssistantLine(p, text) ==
    <<"Assistant (">> \o ModelProvider[p] \o <<"): ">> \o text \o <<"\n">>
FailureLine(msg) == <<"(x) ">> \o msg \o <<"\n">>

\* One iteration that reads a line at "You: " (lines 232-233).
ai_reads(typed) ==
    /\ ai_pc = "input"
    /\ ai_lines < MaxLines
    /\ ai_lines' = ai_lines + 1
    /\ ai_line' = Strip(typed)

\* get_chain as invoke_model calls it from the loop (no model override): the
\* cached chain, or a new one that is stored, or the constructor's error.
ai_get_chain ==
    LET key == cache_key(current_provider, None) IN
    IF key \in DOMAIN chains
    THEN [ok |-> TRUE, chain |-> chains[key], error |-> <<>>, key |-> key, stored |-> FALSE]
    ELSE LET made == create_chain(current_provider, None) IN
         [ok |-> made.ok, chain |-> made.chain, error |-> made.error, key |-> key,
          stored |-> made.ok]

\* The cache after get_chain (lines 153-161).
ai_store(got) ==
    IF got.stored
    THEN /\ chains' = [k \in DOMAIN chains \cup {got.key} |->
                          IF k = got.key THEN got.chain ELSE chains[k]]
         /\ built' = [k \in DOMAIN built \cup {got.key} |->
                          IF k = got.key THEN 1 ELSE built[k]]
    ELSE UNCHANGED <<chains, built>>

\* main(), lines 232-237: a quit command ends the loop.
AiQuit ==
    /\ entry = "ai_cli"
    /\ \E typed \in AiTypedLines :
        /\ ai_reads(typed)
        /\ Lower(Strip(typed)) \in quit_words
    /\ ai_printed' = <<CurrentModelLine(current_provider), GoodbyeLine>>
    /\ ai_event' = "quit"
    /\ ai_calls' = 0
    /\ ai_pc' = "exited"
    /\ UNCHANGED <<entry, uiVars, cliVars, agentVars, backendVars, current_provider, ai_name>>

\* main(), lines 232-247: 'switch' asks for a provider name; a name that is
\* a ModelProvider value is taken, any other leaves current_provider alone.
AiSwitch ==
    /\ entry = "ai_cli"
    /\ \E typed \in AiTypedLines, name \in TypedNames :
        LET new_provider == Lower(Strip(name))
            member == ModelProviderOf(new_provider)
        IN
        /\ ai_reads(typed)
        /\ Lower(Strip(typed)) \notin quit_words
        /\ Lower(Strip(typed)) = S_switch
        /\ ai_name' = name
        /\ IF member # "ValueError"
           THEN /\ current_provider' = member
                /\ ai_event' = "switched"
                /\ ai_printed' = <<CurrentModelLine(current_provider), AvailableLine,
                                   SwitchedLine(member)>>
           ELSE /\ current_provider' = current_provider
                /\ ai_event' = "invalid"
                /\ ai_printed' = <<CurrentModelLine(current_provider), AvailableLine,
                                   InvalidProviderLine>>
    /\ ai_calls' = 0
    /\ UNCHANGED <<entry, uiVars, cliVars, agentVars, backendVars, ai_pc>>

\* main(), lines 232-251: a blank line is refused.
AiBlank ==
    /\ entry = "ai_cli"
    /\ \E typed \in AiTypedLines :
        /\ ai_reads(typed)
        /\ Lower(Strip(typed)) \notin quit_words
        /\ Lower(Strip(typed)) # S_switch
        /\ Strip(typed) = <<>>
    /\ ai_printed' = <<CurrentModelLine(current_provider), PleaseEnterLine>>
    /\ ai_event' = "blank"
    /\ ai_calls' = 0
    /\ UNCHANGED <<entry, uiVars, cliVars, agentVars, backendVars, ai_pc, current_provider, ai_name>>

\* main(), lines 232-256: invoke_model returns and the answer is printed.
AiAnswer ==
    /\ entry = "ai_cli"
    /\ \E typed \in AiTypedLines :
        LET got == ai_get_chain IN
        /\ ai_reads(typed)
        /\ Lower(Strip(typed)) \notin quit_words
        /\ Lower(Strip(typed)) # S_switch
        /\ Strip(typed) # <<>>
        /\ got.ok
        /\ ai_store(got)
        /\ ai_printed' =
             <<CurrentModelLine(current_provider), ThinkingLine,
               AssistantLine(current_provider,
                             response_text(chain_reply(got.chain, Strip(typed))))>>
    /\ ai_event' = "answered"
    /\ ai_calls' = 1
    /\ UNCHANGED <<entry, uiVars, cliVars, agentVars, environ, workerVars, ai_pc,
                   current_provider, ai_name>>

\* Variant of AiFail that leaves the loop after printing the failure.
AiFailLeaves ==
    /\ entry = "ai_cli"
    /\ \E typed \in AiTypedLines :
        LET got == ai_get_chain IN
        /\ ai_reads(typed)
        /\ Lower(Strip(typed)) \notin quit_words
        /\ Lower(Strip(typed)) # S_switch
        /\ Strip(typed) # <<>>
        /\ ai_store(got)
        /\ \E e \in (IF got.ok THEN ProviderFailures ELSE {got.error}) :
            ai_printed' = <<CurrentModelLine(current_provider), ThinkingLine,
                            FailureLine(error_msg(current_provider, e))>>
        /\ ai_calls' = IF got.ok THEN 1 ELSE 0
    /\ ai_event' = "failed"
    /\ ai_pc' = "exited"
    /\ UNCHANGED <<entry, uiVars, cliVars, agentVars, environ, workerVars,
                   current_provider, ai_name>>

\* main(), lines 232-258: invoke_model raises (the constructor refused, or
\* the provider call failed); the message is printed and the loop goes on.
AiFail ==
    /\ entry = "ai_cli"
    /\ \E typed \in AiTypedLines :
        LET got == ai_get_chain IN
        /\ ai_reads(typed)
        /\ Lower(Strip(typed)) \notin quit_words
        /\ Lower(Strip(typed)) # S_switch
        /\ Strip(typed) # <<>>
        /\ ai_store(got)
        /\ \E e \in (IF got.ok THEN ProviderFailures ELSE {got.error}) :
            ai_printed' = <<CurrentModelLine(current_provider), ThinkingLine,
                            FailureLine(error_msg(current_provider, e))>>
        /\ ai_calls' = IF got.ok THEN 1 ELSE 0
    /\ ai_event' = "failed"
    /\ UNCHANGED <<entry, uiVars, cliVars, agentVars, environ, workerVars, ai_pc,
                   current_provider, ai_name>>

\* main() has no handler around the loop: Ctrl-C or end of input at input()
\* (lines 233 and 241) leaves main() with the exception.
AiInterrupt ==
    /\ entry = "ai_cli"
    /\ ai_pc = "input"
    /\ ai_event' = "interrupt"
    /\ ai_pc' = "exited"
    /\ UNCHANGED <<entry, uiVars, cliVars, agentVars, backendVars, current_provider, ai_line,
                   ai_name, ai_calls, ai_printed, ai_lines>>

\* main(), lines 225-229
AiInit ==
    /\ ai_pc = "input"
    /\ current_provider = "AUTO"
    /\ ai_line = <<>>
    /\ ai_name = <<>>
    /\ ai_event = "none"
    /\ ai_calls = 0
    /\ ai_printed = <<>>
    /\ ai_lines = 0

\* -------------------------------------------------- frontend.py: the UI

\* The dropdown entries (line 58); the text the code looks for is a chunk of
\* its own.
DropdownChoices ==
    {<<"(ok) Auto (", "Ollama", ")">>,
     <<"(?) ", "GPT", " (OpenAI)">>,
     <<"(?) Claude (Anthropic)">>}

ThinkingPlaceholder == <<"Thinking...">>

\* What can be in the textbox when Send is pressed.
UiMessages == {<<>>, <<" ">>, <<"h","i">>, <<" ","h","i"," ">>}

JsonDecodeErrorText == <<"Expecting value: line 1 column 1 (char 0)">>

\* What requests.post can end in: a response with a status and a body that
\* is a JSON object (body) or not JSON (text), or an exception of the
\* transport (text is its message).
HttpOutcomes ==
    {[kind |-> "response", status |-> 200, is_json |-> TRUE, text |-> <<>>,
      body |-> [response |-> <<"Hello!">>, status |-> "success"]],
     [kind |-> "response", status |-> 200, is_json |-> TRUE, text |-> <<>>,
      body |-> [status |-> "success"]],
     [kind |-> "response", status |-> 200, is_json |-> FALSE, text |-> <<"<html>">>,
      body |-> [status |-> "none"]],
     [kind |-> "response", status |-> 500, is_json |-> TRUE, text |-> <<>>,
      body |-> [error |-> <<"Failed to process chat request">>, status |-> "error"]],
     [kind |-> "response", status |-> 404, is_json |-> TRUE, text |-> <<>>,
      body |-> [status |-> "error"]],
     [kind |-> "response", status |-> 502, is_json |-> FALSE, text |-> <<"<html>">>,
      body |-> [status |-> "none"]],
     [kind |-> "exception", status |-> 0, is_json |-> FALSE,
      text |-> <<"Connection refused">>, body |-> [status |-> "none"]],
     [kind |-> "exception", status |-> 0, is_json |-> FALSE,
      text |-> <<"Read timed out. (read timeout=180)">>, body |-> [status |-> "none"]]}

\* No request was made.
NoHttpOutcome == [kind |-> "none"]

\* send_chat_request, lines 13-24, given what requests.post ends in.
\* response.json() is called inside the try block in both branches.
send_chat_request(prompt, model, o) ==
    IF o.kind = "exception"
    THEN <<"Connection error: ">> \o o.text
    ELSE IF ~o.is_json
    THEN <<"Connection error: ">> \o JsonDecodeErrorText
    ELSE IF o.status = 200
    THEN (IF "response" \in DOMAIN o.body THEN o.body.response ELSE <<"No response">>)
    ELSE <<"Error: ">> \o (IF "error" \in DOMAIN o.body THEN o.body.error
                           ELSE <<"Unknown error">>)

\* chat_fn, line 32
model_id(model) ==
    IF Mentions(model, "Ollama") THEN S_auto
    ELSE IF Mentions(model, "GPT") THEN S_gpt
    ELSE S_claude

\* The request of lines 14-18.
Post(prompt, model) ==
    [method |-> "POST", url |-> "/api/chat",
     json |-> [prompt |-> prompt, model |-> model]]

\* chat_fn, lines 28-29: a blank message returns the history as it is.
ChatFnBlank ==
    /\ entry = "frontend"
    /\ ui_calls < MaxMessages
    /\ \E message \in UiMessages, model \in DropdownChoices :
        /\ Strip(message) = <<>>
        /\ ui_message' = message
        /\ ui_model' = model
    /\ ui_posts' = <<>>
    /\ ui_outcome' = NoHttpOutcome
    /\ ui_result' = "returned"
    /\ ui_calls' = ui_calls + 1
    /\ UNCHANGED <<entry, aiVars, cliVars, agentVars, backendVars, ui_history>>

\* chat_fn, lines 28-38: the pair is appended with the placeholder, the
\* request is sent and the placeholder is replaced by what
\* send_chat_request returned (it catches every Exception).
ChatFnSend ==
    /\ entry = "frontend"
    /\ ui_calls < MaxMessages
    /\ \E message \in UiMessages, model \in DropdownChoices, o \in HttpOutcomes :
        LET reply == send_chat_request(message, model_id(model), o) IN
        /\ Strip(message) # <<>>
        /\ ui_message' = message
        /\ ui_model' = model
        /\ ui_posts' = <<Post(message, model_id(model))>>
        /\ ui_outcome' = o
        /\ ui_history' = Append(ui_history, <<message, reply>>)
    /\ ui_result' = "returned"
    /\ ui_calls' = ui_calls + 1
    /\ UNCHANGED <<entry, aiVars, cliVars, agentVars, backendVars>>

\* create_interface, line 78: Clear Chat empties the history.
ClearChat ==
    /\ entry = "frontend"
    /\ ui_history # <<>>
    /\ ui_history' = <<>>
    /\ UNCHANGED <<entry, aiVars, cliVars, agentVars, backendVars, ui_message,
                   ui_model, ui_posts, ui_outcome, ui_result, ui_calls>>

\* create_interface, lines 48-61
UiInit ==
    /\ ui_history = <<>>
    /\ ui_message = <<>>
    /\ ui_model = <<>>
    /\ ui_posts = <<>>
    /\ ui_outcome = NoHttpOutcome
    /\ ui_result = "none"
    /\ ui_calls = 0

\* ------------------------------------------ taiga/main.py: interactive_mode

HumanMessage(content) == [role |-> "human", content |-> content]
AIMessage(content) == [role |-> "ai", content |-> content]

\* result['output'] of a successful executor.ainvoke
AgentOutputs == {<<"2 projects">>, <<"created">>}

\* str(e) of a failing executor.ainvoke
AgentErrors == {<<"tool call failed">>}

\* interactive_mode, lines 74-78: a quit command ends the loop.
TaigaQuit ==
    /\ entry = "taiga"
    /\ agent_pc = "input"
    /\ agent_turns < MaxTurns
    /\ \E typed \in TypedLines :
        /\ Lower(Strip(typed)) \in quit_words
        /\ agent_input' = Strip(typed)
    /\ agent_event' = "quit"
    /\ agent_pc' = "exited"
    /\ agent_turns' = agent_turns + 1
    /\ UNCHANGED <<entry, uiVars, aiVars, backendVars, cliVars, chat_history, agent_passed>>

\* interactive_mode, lines 74-81: blank input, next iteration.
TaigaBlank ==
    /\ entry = "taiga"
    /\ agent_pc = "input"
    /\ agent_turns < MaxTurns
    /\ \E typed \in TypedLines :
        /\ Lower(Strip(typed)) \notin quit_words
        /\ Strip(typed) = <<>>
        /\ agent_input' = Strip(typed)
    /\ agent_event' = "blank"
    /\ agent_turns' = agent_turns + 1
    /\ UNCHANGED <<entry, uiVars, aiVars, backendVars, cliVars, agent_pc, chat_history, agent_passed>>

\* interactive_mode, lines 74-96: the executor answers; the turn is recorded.
TaigaAnswer ==
    /\ entry = "taiga"
    /\ agent_pc = "input"
    /\ agent_turns < MaxTurns
    /\ \E typed \in TypedLines, output \in AgentOutputs :
        /\ Lower(Strip(typed)) \notin quit_words
        /\ Strip(typed) # <<>>
        /\ agent_input' = Strip(typed)
        /\ agent_passed' = chat_history
        /\ chat_history' = chat_history
                \o <<HumanMessage(Strip(typed)), AIMessage(output)>>
    /\ agent_event' = "answered"
    /\ agent_turns' = agent_turns + 1
    /\ UNCHANGED <<entry, uiVars, aiVars, backendVars, cliVars, agent_pc>>

\* Variant of TaigaError whose handler records the error text alone.
TaigaErrorUnpaired ==
    /\ entry = "taiga"
    /\ agent_pc = "input"
    /\ agent_turns < MaxTurns
    /\ \E typed \in TypedLines, e \in AgentErrors :
        /\ Lower(Strip(typed)) \notin quit_words
        /\ Strip(typed) # <<>>
        /\ agent_input' = Strip(typed)
        /\ agent_passed' = chat_history
        /\ chat_history' = chat_history \o <<AIMessage(<<"Got error: ">> \o e)>>
    /\ agent_event' = "failed"
    /\ agent_turns' = agent_turns + 1
    /\ UNCHANGED <<entry, uiVars, aiVars, backendVars, cliVars, agent_pc>>

\* interactive_mode, lines 74-84 and 101-107: the executor raises; the input
\* and the error text are recorded.
TaigaError ==
    /\ entry = "taiga"
    /\ agent_pc = "input"
    /\ agent_turns < MaxTurns
    /\ \E typed \in TypedLines, e \in AgentErrors :
        /\ Lower(Strip(typed)) \notin quit_words
        /\ Strip(typed) # <<>>
        /\ agent_input' = Strip(typed)
        /\ agent_passed' = chat_history
        /\ chat_history' = chat_history
                \o <<HumanMessage(Strip(typed)), AIMessage(<<"Got error: ">> \o e)>>
    /\ agent_event' = "failed"
    /\ agent_turns' = agent_turns + 1
    /\ UNCHANGED <<entry, uiVars, aiVars, backendVars, cliVars, agent_pc>>

\* interactive_mode, lines 97-100: Ctrl-C at input() or during the call.
TaigaInterrupt ==
    /\ entry = "taiga"
    /\ agent_pc = "input"
    /\ agent_event' = "interrupt"
    /\ agent_pc' = "exited"
    /\ UNCHANGED <<entry, uiVars, aiVars, backendVars, cliVars, agent_input, chat_history,
                   agent_passed, agent_turns>>

\* interactive_mode, lines 72-74 and 101-106: input() raises (end of input)
\* while user_input is None; building HumanMessage(content=None) raises
\* inside the handler before extend runs, and the loop is left.
TaigaEndOfInput ==
    /\ entry = "taiga"
    /\ agent_pc = "input"
    /\ agent_event' = "eof"
    /\ agent_pc' = "exited"
    /\ UNCHANGED <<entry, uiVars, aiVars, backendVars, cliVars, agent_input, chat_history,
                   agent_passed, agent_turns>>

AgentInit ==
    /\ agent_pc = "input"
    /\ agent_event = "none"
    /\ agent_input = <<>>
    /\ chat_history = <<>>
    /\ agent_passed = <<>>
    /\ agent_turns = 0

\* ------------------------------------------------------------ specification

vars == <<entry, backendVars, cliVars, agentVars, aiVars, uiVars>>

\* One of the scripts is started.  The variables of the others stay as they
\* are; only the started script's actions are enabled.
Init ==
    /\ entry \in {"backend", "ollama_cli", "taiga", "ai_cli", "frontend"}
    /\ BackendInit
    /\ CliInit
    /\ AgentInit
    /\ AiInit
    /\ UiInit
    /\ entry \notin {"backend", "ai_cli"} =>
         environ = [OPENAI_API_KEY |-> None, ANTHROPIC_API_KEY |-> None]

BackendNext ==
    \/ \E t \in Threads : Chat(t)
    \/ \E t \in Threads : Create(t)
    \/ \E t \in Threads : InvokeOk(t)
    \/ \E t \in Threads : InvokeFail(t)
    \/ \E t \in Threads : ListModels(t)
    \/ \E t \in Threads : Health(t)
    \/ \E t \in Threads : Respond(t)

OllamaNext ==
    \/ OllamaStart
    \/ OllamaQuit
    \/ OllamaBlank
    \/ OllamaAnswer
    \/ OllamaError
    \/ OllamaInterrupt

TaigaNext ==
    \/ TaigaQuit
    \/ TaigaBlank
    \/ TaigaAnswer
    \/ TaigaError
    \/ TaigaInterrupt
    \/ TaigaEndOfInput

AiNext ==
    \/ AiInterrupt
    \/ AiQuit
    \/ AiSwitch
    \/ AiBlank
    \/ AiAnswer
    \/ AiFail

UiNext ==
    \/ ChatFnBlank
    \/ ChatFnSend
    \/ ClearChat

Next ==
    \/ BackendNext
    \/ OllamaNext
    \/ TaigaNext
    \/ AiNext
    \/ UiNext

Spec == Init /\ [][Next]_vars

\* The agent script alone (taiga/main.py started).
AgentSpecInit == Init /\ entry = "taiga"

SpecAgent == AgentSpecInit /\ [][TaigaNext]_vars

\* The two provider CLI loops alone (ollama/main.py or ai.py started).
CliSpecInit == Init /\ entry \in {"ollama_cli", "ai_cli"}

CliNext ==
    \/ OllamaNext
    \/ AiNext

SpecCli == CliSpecInit /\ [][CliNext]_vars

\* The browser UI alone (frontend.py started).
UiSpecInit == Init /\ entry = "frontend"

SpecUi == UiSpecInit /\ [][UiNext]_vars

\* =================================================================== claims

ChatDone(t) == pc[t] = "done" /\ request[t].route = "/api/chat"

HasField(t, k) == request[t].is_json /\ k \in DOMAIN request[t].json

AllWhitespace(s) == \A i \in 1..Len(s) : s[i] \in Whitespace

\* The body is a JSON object whose prompt is missing, empty or only whitespace.
PromptMissingOrEmpty(t) ==
    /\ request[t].is_json
    /\ \/ ~HasField(t, "prompt")
       \/ /\ IsStr(request[t].json.prompt)
          /\ AllWhitespace(request[t].json.prompt.v)

\* The body is a JSON object with a prompt string that has a visible character.
NonEmptyPrompt(t) ==
    /\ HasField(t, "prompt")
    /\ IsStr(request[t].json.prompt)
    /\ ~AllWhitespace(request[t].json.prompt.v)

\* {error, status: 'error'} and nothing else
IsErrorPayload(r) ==
    /\ DOMAIN r.body = {"error", "status"}
    /\ r.body.status = "error"
    /\ r.body.error # <<>>

KeySet(v) == v # None /\ v # PyStr(<<>>)

\* C1: a chat request whose prompt is missing, empty or only whitespace is
\* answered 400 with the error 'Prompt is required and cannot be empty' and
\* status 'error', whatever model and specific_model the body holds.
C1_BlankPromptRejected ==
    \A t \in Threads :
        (ChatDone(t) /\ PromptMissingOrEmpty(t)) =>
            /\ response[t].code = 400
            /\ IsErrorPayload(response[t])
            /\ Mentions(response[t].body.error, "Prompt is required and cannot be empty")

C1_Witness ==
    \E t \in Threads :
        /\ ChatDone(t)
        /\ HasField(t, "prompt") /\ HasField(t, "model") /\ HasField(t, "specific_model")
        /\ request[t].json.prompt = PyStr(<<" ", "\t">>)
        /\ request[t].json.model = PyStr(S_auto)
        /\ response[t].code = 400

\* C2 (as claimed): a chat request with a non-empty prompt and a model value
\* outside {auto, gpt, claude}, or no model field, is answered 400.
C2_UnknownModelRejected ==
    \A t \in Threads :
        (/\ ChatDone(t)
         /\ NonEmptyPrompt(t)
         /\ \/ ~HasField(t, "model")
            \/ request[t].json.model \notin {PyStr(S_auto), PyStr(S_gpt), PyStr(S_claude)})
        => response[t].code = 400

\* The request passes validation and selects the provider with value sel.
Selects(t, sel) ==
    /\ NonEmptyPrompt(t)
    /\ HasField(t, "model")
    /\ IsStr(request[t].json.model)
    /\ Lower(request[t].json.model.v) = sel

\* C3: a valid chat request for gpt (claude) while no OpenAI (Anthropic) key
\* is configured is answered with {error, status: 'error'}, without a
\* response field, and the error names the missing key variable; this holds
\* for every such request, the first and the later ones.
C3_MissingKeyReported ==
    \A t \in Threads :
        /\ (ChatDone(t) /\ Selects(t, S_gpt) /\ ~KeySet(environ.OPENAI_API_KEY)) =>
              /\ IsErrorPayload(response[t])
              /\ Mentions(response[t].body.error, OpenAIKeyError[1])
        /\ (ChatDone(t) /\ Selects(t, S_claude) /\ ~KeySet(environ.ANTHROPIC_API_KEY)) =>
              /\ IsErrorPayload(response[t])
              /\ Mentions(response[t].body.error, AnthropicKeyError[1])

\* The second request of the process is a keyless gpt request that was answered.
C3_Witness ==
    \E t \in Threads :
        /\ served = 2
        /\ ChatDone(t) /\ Selects(t, S_gpt) /\ ~KeySet(environ.OPENAI_API_KEY)
        /\ \A u \in Threads \ {t} : pc[u] = "idle"
        /\ Mentions(response[t].body.error, OpenAIKeyError[1])

\* The body fails one of the validation checks of the interface: it is not
\* JSON, its prompt is not a non-empty string, or its model is not a string
\* naming one of the three providers (in any letter case).
InvalidBody(t) ==
    \/ ~request[t].is_json
    \/ ~NonEmptyPrompt(t)
    \/ ~HasField(t, "model")
    \/ ~IsStr(request[t].json.model)
    \/ Lower(request[t].json.model.v) \notin {S_auto, S_gpt, S_claude}

\* C4 (as claimed): every chat response is a 200 success or an {error, status}
\* failure; the code is 400 exactly when the body failed validation and 500
\* exactly when the provider step (chain construction or invocation) failed.
C4_StatusCodes ==
    \A t \in Threads :
        ChatDone(t) =>
            /\ response[t].code \in {200, 400, 500}
            /\ response[t].code # 200 => IsErrorPayload(response[t])
            /\ response[t].code = 400 <=> InvalidBody(t)
            /\ response[t].code = 500 <=> (~InvalidBody(t) /\ outcome[t].kind = "raised")

\* The client that serves a provider id.
ClientOf(sel) ==
    CASE sel = S_auto   -> "OllamaLLM"
      [] sel = S_gpt    -> "ChatOpenAI"
      [] sel = S_claude -> "ChatAnthropic"

\* C5: a well-formed chat request (non-empty prompt, model in {auto, gpt,
\* claude}) whose provider replies is answered 200 with status 'success',
\* response = the reply of the requested provider to the trimmed prompt,
\* model_used = the requested provider, specific_model = the request's
\* specific_model (null when absent).
C5_SuccessEchoesRequest ==
    \A t \in Threads :
        (/\ ChatDone(t)
         /\ NonEmptyPrompt(t)
         /\ HasField(t, "model")
         /\ request[t].json.model \in {PyStr(S_auto), PyStr(S_gpt), PyStr(S_claude)}
         /\ outcome[t].kind = "returned")
        => /\ response[t].code = 200
           /\ DOMAIN response[t].body = {"response", "model_used", "specific_model", "status"}
           /\ response[t].body.status = "success"
           /\ response[t].body.model_used = request[t].json.model.v
           /\ response[t].body.specific_model =
                (IF HasField(t, "specific_model")
                 THEN request[t].json.specific_model ELSE None)
           /\ frame[t].chain.client = ClientOf(request[t].json.model.v)
           /\ response[t].body.response =
                Completion(frame[t].chain,
                           <<"Human: ">> \o Strip(request[t].json.prompt.v)
                               \o <<"\n\nAssistant:">>)

C5_Witness ==
    \E t \in Threads :
        /\ ChatDone(t)
        /\ request[t].json = MkBody(PyStr(<<" ", "h", "i", " ">>), PyStr(S_claude), Absent)
        /\ response[t].code = 200
        /\ response[t].body.specific_model = None
        /\ response[t].body.response =
             <<"ChatAnthropic", "(">> \o S_haiku
                \o <<") says: ", "Human: ", "h", "i", "\n\nAssistant:">>

ModelsDone(t) == pc[t] = "done" /\ request[t].route = "/api/models"

\* C6 (as claimed): GET /api/models lists exactly auto, gpt and claude, and
\* each entry carries an `available` flag; for gpt and claude the flag is
\* true exactly when the key variable is set to a non-empty value.
C6_ModelsListing ==
    \A t \in Threads :
        ModelsDone(t) =>
            LET models == response[t].body.models IN
            /\ response[t].code = 200
            /\ Len(models) = 3
            /\ models[1].id = S_auto /\ models[2].id = S_gpt /\ models[3].id = S_claude
            /\ \A i \in 1..3 : "available" \in DOMAIN models[i]
            /\ models[2].available = KeySet(environ.OPENAI_API_KEY)
            /\ models[3].available = KeySet(environ.ANTHROPIC_API_KEY)

OwnTroubleshooting(sel) ==
    CASE sel = S_auto   -> TroubleshootOllama[1]
      [] sel = S_gpt    -> TroubleshootOpenAI[1]
      [] sel = S_claude -> TroubleshootAnthropic[1]

\* C7: invoke_model, called with a selector in {auto, gpt, claude}, ends in
\* one of two ways: it returns the reply of the selected provider's client
\* (auto: the local server, gpt: OpenAI, claude: Anthropic), or it raises an
\* error that starts 'Error with <selector>: ' and carries the selected
\* provider's troubleshooting text and no other provider's.
C7_RoutingOutcome ==
    \A t \in Threads :
        LET sel == frame[t].model_provider.v
            msg == outcome[t].value
        IN
        (ChatDone(t) /\ sel \in {S_auto, S_gpt, S_claude}) =>
            /\ outcome[t].kind \in {"returned", "raised"}
            /\ outcome[t].kind = "returned" =>
                 /\ frame[t].chain.client = ClientOf(sel)
                 /\ msg = Completion(frame[t].chain, fill_template(frame[t].prompt.v))
            /\ outcome[t].kind = "raised" =>
                 /\ SubSeq(msg, 1, Len(sel) + 2) = <<"Error with ">> \o sel \o <<": ">>
                 /\ Mentions(msg, OwnTroubleshooting(sel))
                 /\ \A other \in {S_auto, S_gpt, S_claude} \ {sel} :
                        ~Mentions(msg, OwnTroubleshooting(other))

\* A claude call failed at the provider while a gpt chain is in the cache.
C7_Witness ==
    \E t \in Threads :
        /\ ChatDone(t)
        /\ frame[t].model_provider.v = S_claude
        /\ frame[t].chain.client = "ChatAnthropic"
        /\ outcome[t].kind = "raised"
        /\ \E k \in DOMAIN chains : chains[k].client = "ChatOpenAI"

\* C10 (as claimed): no two in-flight requests are ever between the
\* membership test and the fill of the chain cache for the same key, and the
\* chain of a cache key is constructed at most once.
C10_NoCacheContention ==
    /\ \A t, u \in Threads :
        (t # u /\ pc[t] = "create" /\ pc[u] = "create")
            => frame[t].cache_key # frame[u].cache_key
    /\ \A k \in DOMAIN built : built[k] <= 1


\* C8: nothing is retried: one chat request, and one line entered in the
\* local-model CLI loop, causes at most one provider invocation, whether it
\* succeeds or fails; commands and rejected requests cause none.
C8_NoRetry ==
    /\ \A t \in Threads :
        /\ calls[t] <= 1
        /\ pc[t] \in {"idle", "create", "invoke"} => calls[t] = 0
        /\ (ChatDone(t) /\ outcome[t].kind = "none") => calls[t] = 0
    /\ cli_calls <= 1
    /\ (cli_line = <<>> \/ Lower(cli_line) \in quit_words) => cli_calls = 0

\* A request whose provider call failed has been answered after one call.
C8_Witness ==
    \E t \in Threads :
        /\ ChatDone(t)
        /\ response[t].code = 500
        /\ frame[t].chain # NoChain
        /\ calls[t] = 1

IsPairOf(h, i, user_input) ==
    /\ h[i].role = "human"
    /\ h[i].content = user_input
    /\ h[i + 1].role = "ai"

\* C9: the agent loop's chat history is append-only: an iteration that is a
\* blank line, a quit command or an interrupt leaves it unchanged; an
\* iteration that reaches the agent appends one user message holding the
\* input and then one assistant message (the output, or the error text),
\* after handing the agent the history as it was before; so the history has
\* even length and alternates user/assistant.
C9_HistoryAppendOnly ==
    /\ [](/\ Len(chat_history) % 2 = 0
          /\ \A i \in 1..Len(chat_history) :
                chat_history[i].role = (IF i % 2 = 1 THEN "human" ELSE "ai"))
    /\ [][/\ SubSeq(chat_history', 1, Len(chat_history)) = chat_history
          /\ agent_event' \in {"blank", "quit", "interrupt"}
                => chat_history' = chat_history
          /\ (agent_turns' # agent_turns /\ agent_event' \in {"answered", "failed"})
                => /\ Len(chat_history') = Len(chat_history) + 2
                   /\ IsPairOf(chat_history', Len(chat_history) + 1, agent_input')
                   /\ agent_passed' = chat_history
                   /\ agent_event' = "answered"
                        => chat_history'[Len(chat_history')].content \in AgentOutputs
                   /\ agent_event' = "failed"
                        => chat_history'[Len(chat_history')].content[1] = "Got error: "]_vars

\* A failed turn was recorded after an answered one.
C9_Witness ==
    /\ Len(chat_history) = 4
    /\ agent_event = "failed"
    /\ agent_passed = SubSeq(chat_history, 1, 2)
    /\ chat_history[2].content \in AgentOutputs
    /\ chat_history[4].content[1] = "Got error: "

HealthDone(t) == pc[t] = "done" /\ request[t].route = "/health"

\* C11: every answer to GET /health has status 200 and `status: healthy`,
\* whatever keys are configured, whatever the chain cache holds and whatever
\* chat requests were served before or are being served beside it.
C11_HealthAlwaysHealthy ==
    \A t \in Threads :
        HealthDone(t) =>
            /\ response[t].code = 200
            /\ response[t].body.status = "healthy"

\* GET /health answered with no API key configured, a chain in the cache and
\* a chat request that failed with 500.
C11_Witness ==
    /\ HealthDone("t1")
    /\ response["t1"] = health_check
    /\ environ = [OPENAI_API_KEY |-> None, ANTHROPIC_API_KEY |-> None]
    /\ chains # <<>>
    /\ ChatDone("t2")
    /\ response["t2"].code = 500

\* The model a provider is configured with (AIService._setup_config).
ConfiguredModel(p) ==
    CASE p = "AUTO"   -> S_qwen
      [] p = "GPT"    -> S_gpt35
      [] p = "CLAUDE" -> S_haiku

\* C12 (as claimed): the chain that get_chain hands to a request was built
\* for the request's provider and for the request's model override, or for
\* the provider's configured model when the request carries no override.
C12_ChainMatchesRequest ==
    \A t \in Threads :
        frame[t].chain # NoChain =>
            /\ frame[t].chain.client = ClientOf(ModelProvider[frame[t].provider])
            /\ frame[t].chain.model =
                 (IF frame[t].specific_model = None
                  THEN ConfiguredModel(frame[t].provider)
                  ELSE frame[t].specific_model.v)

\* The failure lines among the lines an iteration of ai.py's loop printed.
FailureLines(printed) == {i \in DOMAIN printed : printed[i][1] = "(x) "}

AiReadLine == ai_lines' = ai_lines + 1
OllamaReadLine == cli_lines' = cli_lines + 1

\* After a failed invocation the failure is printed once, the loop waits at
\* the next prompt and the loop state is what it was.
CliFailureKeepsSession ==
    /\ (AiReadLine /\ ai_event' = "failed") =>
          /\ ai_pc' = "input"
          /\ current_provider' = current_provider
          /\ ai_name' = ai_name
          /\ Cardinality(FailureLines(ai_printed')) = 1
    /\ (OllamaReadLine /\ cli_shown' = "error") =>
          /\ cli_pc' = "input"
          /\ cli_calls' = 1

\* A quit word in any letter case ends the loop.
CliQuitEnds ==
    /\ (AiReadLine /\ Lower(ai_line') \in quit_words) => ai_pc' = "exited"
    /\ (OllamaReadLine /\ Lower(cli_line') \in quit_words) => cli_pc' = "exited"

\* Quit, switch and a blank line make no provider call and build no chain.
CliCommandsInvokeNothing ==
    /\ (/\ AiReadLine
        /\ \/ Lower(ai_line') \in quit_words \cup {S_switch}
           \/ ai_line' = <<>>)
       => /\ ai_calls' = 0
          /\ chains' = chains
          /\ built' = built
    /\ (/\ OllamaReadLine
        /\ \/ Lower(cli_line') \in quit_words
           \/ cli_line' = <<>>)
       => cli_calls' = 0

AiSwitched == AiReadLine /\ Lower(ai_line') = S_switch

RejectedBody(req) ==
    /\ req.route = "/api/chat"
    /\ \/ ~req.is_json
       \/ "prompt" \notin DOMAIN req.json
       \/ ~IsStr(req.json.prompt)
       \/ AllWhitespace(req.json.prompt.v)
       \/ "model" \notin DOMAIN req.json
       \/ ~IsStr(req.json.model)
       \/ Lower(req.json.model.v) \notin valid_providers

\* Worker t takes a step.
StepOf(t) == pc'[t] # pc[t]

\* C14: no step a worker takes for a rejected chat request (accepting it,
\* answering it) invokes the provider, constructs a chain or changes the
\* cache; and a chain construction that raises leaves the cache as it was.
C14_RejectedHasNoEffect ==
    [][ \A t \in Threads :
          /\ (StepOf(t) /\ (RejectedBody(request[t]) \/ RejectedBody(request'[t])))
                => /\ chains' = chains
                   /\ built' = built
                   /\ calls[t] = 0 /\ calls'[t] = 0
                   /\ frame'[t].chain = NoChain
                   /\ outcome'[t].kind = "none"
          /\ (pc[t] = "create" /\ outcome'[t].kind = "raised")
                => /\ chains' = chains
                   /\ built' = built
                   /\ calls'[t] = 0
      ]_vars

\* One worker has rejected a request for an unknown model with 400, the other
\* has had a chain constructor refuse (no key); the cache holds nothing.
C14_Witness ==
    /\ ChatDone("t1")
    /\ RejectedBody(request["t1"])
    /\ response["t1"].code = 400
    /\ HasField("t1", "model")
    /\ request["t1"].json.model = PyStr(<<"l","l","a","m","a">>)
    /\ ChatDone("t2")
    /\ ~RejectedBody(request["t2"])
    /\ outcome["t2"].kind = "raised"
    /\ calls["t2"] = 0
    /\ frame["t2"].cache_key \notin DOMAIN chains
    /\ chains = <<>>

\* The provider id a dropdown entry stands for.
ProviderIdOf(choice) ==
    CASE choice = <<"(ok) Auto (", "Ollama", ")">> -> S_auto
      [] choice = <<"(?) ", "GPT", " (OpenAI)">>   -> S_gpt
      [] choice = <<"(?) Claude (Anthropic)">>     -> S_claude

StartsWith(text, chunk) == text # <<>> /\ text[1] = chunk

\* A step that is one call of chat_fn.
ChatFnCalled == ui_calls' = ui_calls + 1

\* What chat_fn does apart from the wording of the reply: it returns; a blank
\* message leaves the history alone and posts nothing; any other message
\* posts once to /api/chat with the selected entry's provider id and appends
\* exactly one [message, reply] pair whose reply is not the placeholder.
ChatFnShape ==
    /\ ui_result' = "returned"
    /\ AllWhitespace(ui_message') =>
          /\ ui_history' = ui_history
          /\ ui_posts' = <<>>
    /\ ~AllWhitespace(ui_message') =>
          /\ Len(ui_posts') = 1
          /\ ui_posts'[1].method = "POST"
          /\ ui_posts'[1].url = "/api/chat"
          /\ ui_posts'[1].json.model = ProviderIdOf(ui_model')
          /\ Len(ui_history') = Len(ui_history) + 1
          /\ SubSeq(ui_history', 1, Len(ui_history)) = ui_history
          /\ ui_history'[Len(ui_history')][1] = ui_message'
          /\ ui_history'[Len(ui_history')][2] # ThinkingPlaceholder

\* The reply chat_fn put into the last pair.
LastReply(h) == h[Len(h)][2]

\* C15 (as claimed): chat_fn behaves as in ChatFnShape, and the reply is the
\* backend's `response` on status 200, an 'Error: ...' text on any other
\* status and a 'Connection error: ...' text on a transport failure.
C15_ChatFn ==
    [][ ChatFnCalled =>
          /\ ChatFnShape
          /\ ~AllWhitespace(ui_message') =>
                /\ (/\ ui_outcome'.kind = "response"
                    /\ ui_outcome'.status = 200
                    /\ ui_outcome'.is_json
                    /\ "response" \in DOMAIN ui_outcome'.body)
                      => LastReply(ui_history') = ui_outcome'.body.response
                /\ (ui_outcome'.kind = "response" /\ ui_outcome'.status # 200)
                      => StartsWith(LastReply(ui_history'), "Error: ")
                /\ ui_outcome'.kind = "exception"
                      => StartsWith(LastReply(ui_history'), "Connection error: ")
      ]_vars

====
